---- MODULE Spec2Model ----
(***************************************************************************)
(* Note Organizer App (src/noteApp.js): the menu loop of main(), its five  *)
(* handlers, the title matcher findNoteByTitle and the JSON document that  *)
(* loadNotes / saveNotes keep on disk.                                     *)
(*                                                                         *)
(* A JavaScript string is a sequence of one-character strings, so that     *)
(* trim(), toLowerCase() and includes() are computed character by          *)
(* character.  A note is a record with the fields of the object literal of *)
(* addNote: title, body, time_added.  An optional note (the result of      *)
(* Array.prototype.find) is a sequence of length 0 (undefined) or 1.       *)
(***************************************************************************)
EXTENDS Integers, Sequences, FiniteSets

VARIABLES
    pc,          \* "start" before loadNotes, "menu" at the prompt of main, "exited" after process.exit
    notes,       \* the array `notes` of main
    file,        \* NOTES_FILE on disk: [state, data]
    clock,       \* the wall clock read by new Date()
    choice,      \* the last menu choice handled ("" before the first)
    titleInput,  \* the trimmed title / query the last handler read ("" if none)
    bodyInput,   \* the trimmed body the last handler read ("" if none)
    outcome,     \* how the last handler ended: "ok", "ValidationError", "NotFoundError", "StorageError", "invalid", "exit"
    shown        \* the notes the last handler printed in full (readNote, listAllNotes)

vars == <<pc, notes, file, clock, choice, titleInput, bodyInput, outcome, shown>>

----------------------------------------------------------------------------
(* Bounds of the model *)

\* the wall clock advances at most this far; every note added is created at
\* a later instant than the one before, so this also bounds the notes added
MaxClock == 3

\* what the user may type at a title prompt
TitleInputs ==
    { <<>>, <<" ">>, <<" ", "a">>, <<"A">>, <<"a", "b">>, <<"A", "b", " ">>, <<"b">> }

\* what the user may type at a body prompt
BodyInputs == { <<>>, <<" ">>, <<"x">>, <<" ", "y">> }

----------------------------------------------------------------------------
(* String primitives of the JavaScript runtime used by the handlers *)

Min(S) == CHOOSE x \in S : \A y \in S : x <= y
Max(S) == CHOOSE x \in S : \A y \in S : x >= y

\* String.prototype.trim: drops leading and trailing white space
trim(s) ==
    LET ink == { i \in 1..Len(s) : s[i] # " " }
    IN  IF ink = {} THEN <<>> ELSE SubSeq(s, Min(ink), Max(ink))

lowerChar(c) ==
    CASE c = "A" -> "a"
      [] c = "B" -> "b"
      [] OTHER   -> c

\* String.prototype.toLowerCase
toLowerCase(s) == [ i \in 1..Len(s) |-> lowerChar(s[i]) ]

\* String.prototype.includes: q occurs in s as a contiguous substring
includes(s, q) ==
    \E i \in 0..(Len(s) - Len(q)) : SubSeq(s, i + 1, i + Len(q)) = q

----------------------------------------------------------------------------
(* Storage: loadNotes / saveNotes *)

initialNotes == <<>>

\* JSON.stringify(notes, null, 2): each object becomes its members in key order
JSONstringify(ns) ==
    [ i \in 1..Len(ns) |-> <<ns[i].title, ns[i].body, ns[i].time_added>> ]

\* JSON.parse of a document written by JSONstringify
JSONparse(data) ==
    [ i \in 1..Len(data) |->
        [title |-> data[i][1], body |-> data[i][2], time_added |-> data[i][3]] ]

Absent == [state |-> "absent", data |-> <<>>]
Document(ns) == [state |-> "json", data |-> JSONstringify(ns)]
Garbage == [state |-> "garbage", data |-> <<>>]

\* a note an earlier run of the program left in the document
EarlierNote == [title |-> <<"a", "b">>, body |-> <<"x">>, time_added |-> 0]

InitialFiles == { Absent, Document(<<>>), Document(<<EarlierNote>>), Garbage }

\* saveNotes with the write left out
saveNotes_noWrite(ns) ==
    /\ file' = file
    /\ pc' = "menu"

\* fs.writeFileSync succeeds or throws; on a throw the process exits with 1
saveNotes(ns) ==
    \E written \in BOOLEAN :
        IF written
        THEN /\ file' = Document(ns)
             /\ pc' = "menu"
        ELSE /\ file' = file
             /\ pc' = "exited"

saved == IF pc' = "exited" THEN "StorageError" ELSE "ok"

----------------------------------------------------------------------------
(* Matching *)

\* Array.prototype.findIndex, 1-based, with 0 for -1.  `sat` is the callback's
\* verdict on each element in turn; Array.prototype.find returns the element at
\* this index, or undefined.
findIndex(sat) ==
    LET hits == { i \in 1..Len(sat) : sat[i] }
    IN  IF hits = {} THEN 0 ELSE Min(hits)

\* foundAt without the exact-match pass: the first partial match only
foundAt_partialOnly(ns, input) ==
    LET query == toLowerCase(input)
        partial == [ i \in 1..Len(ns) |-> includes(toLowerCase(ns[i].title), query) ]
    IN  findIndex(partial)

\* the index of the note findNoteByTitle returns: the first exact match,
\* and only if there is none (find gave undefined, `||`) the first partial match
foundAt(ns, input) ==
    LET query == toLowerCase(input)
        exact == [ i \in 1..Len(ns) |-> toLowerCase(ns[i].title) = query ]
        partial == [ i \in 1..Len(ns) |-> includes(toLowerCase(ns[i].title), query) ]
    IN  IF findIndex(exact) # 0 THEN findIndex(exact) ELSE findIndex(partial)

findNoteByTitle(ns, input) ==
    IF foundAt(ns, input) = 0 THEN <<>> ELSE <<ns[foundAt(ns, input)]>>

\* titleTaken comparing the titles as typed, without toLowerCase
titleTaken_caseSensitive(ns, title) ==
    \E i \in 1..Len(ns) : ns[i].title = title

\* the duplicate test of addNote: notes.some(n => lower(n.title) === lower(title))
titleTaken(ns, title) ==
    \E i \in 1..Len(ns) : toLowerCase(ns[i].title) = toLowerCase(title)

\* the predicate deleteNote hands to findIndex
deleteMatches(n, input) ==
    \/ toLowerCase(n.title) = toLowerCase(input)
    \/ includes(toLowerCase(n.title), toLowerCase(input))

\* notes.unshift(note) in place of push
push_front(ns, note) == <<note>> \o ns

\* notes.push(note)
push(ns, note) == Append(ns, note)

\* notes.slice(index, 1) in place of splice: the array is left as it was
splice_slice(ns, index) == ns

\* notes.splice(index, 1): the array without the element at index
splice(ns, index) ==
    [ i \in 1..(Len(ns) - 1) |-> IF i < index THEN ns[i] ELSE ns[i + 1] ]

----------------------------------------------------------------------------
(* Handlers.  Each reads its prompts and runs to its return. *)

\* the assignment replacing the note by a fresh object literal, as addNote builds it
setBody_fresh(ns, at, newBody) ==
    [ns EXCEPT ![at] = [title |-> ns[at].title, body |-> newBody, time_added |-> clock]]

\* note.body = newBody
setBody(ns, at, newBody) == [ns EXCEPT ![at].body = newBody]

\* `return console.log("...")`: the handler reports and returns to the menu
reject(kind) ==
    /\ outcome' = kind
    /\ shown' = <<>>
    /\ UNCHANGED <<pc, notes, file, clock>>

\* const notes = loadNotes()
loadNotes ==
    /\ pc = "start"
    /\ choice' = "load"
    /\ UNCHANGED <<clock, titleInput, bodyInput, shown>>
    /\ IF file.state = "absent"
       THEN /\ notes' = initialNotes
            /\ saveNotes(initialNotes)
            /\ outcome' = saved
       ELSE \E readable \in BOOLEAN :
              IF readable /\ file.state = "json"
              THEN /\ notes' = JSONparse(file.data)
                   /\ pc' = "menu"
                   /\ outcome' = "ok"
                   /\ UNCHANGED file
              ELSE /\ pc' = "exited"
                   /\ outcome' = "StorageError"
                   /\ UNCHANGED <<notes, file>>

\* case '1'.  The title and body prompts repeat until the answer is not empty,
\* so the handler goes on with the first non-empty title and body.  new Date()
\* is read after the prompts were answered: at a later instant than the last add.
addNote ==
    /\ pc = "menu"
    /\ \E rawTitle \in TitleInputs, rawBody \in BodyInputs :
         LET title == trim(rawTitle)
             body == trim(rawBody)
             now == clock + 1
         IN  /\ title # <<>>
             /\ choice' = "1"
             /\ titleInput' = title
             /\ IF titleTaken(notes, title)
                THEN /\ bodyInput' = <<>>
                     /\ reject("ValidationError")
                ELSE /\ body # <<>>
                     /\ now <= MaxClock
                     /\ bodyInput' = body
                     /\ clock' = now
                     /\ notes' = push(notes, [title |-> title, body |-> body,
                                              time_added |-> now])
                     /\ saveNotes(notes')
                     /\ outcome' = saved
                     /\ shown' = <<>>

\* case '2'
listAllNotes ==
    /\ pc = "menu"
    /\ choice' = "2"
    /\ titleInput' = <<>>
    /\ bodyInput' = <<>>
    /\ outcome' = "ok"
    /\ shown' = notes
    /\ UNCHANGED <<pc, notes, file, clock>>

\* readNote without the test of an empty input
readNote_noGuard ==
    /\ pc = "menu"
    /\ \E raw \in TitleInputs :
         LET input == trim(raw)
             note == findNoteByTitle(notes, input)
         IN  /\ choice' = "3"
             /\ titleInput' = input
             /\ bodyInput' = <<>>
             /\ IF note = <<>> THEN reject("NotFoundError")
                ELSE /\ outcome' = "ok"
                     /\ shown' = note
                     /\ UNCHANGED <<pc, notes, file, clock>>

\* case '3'
readNote ==
    /\ pc = "menu"
    /\ \E raw \in TitleInputs :
         LET input == trim(raw)
             note == findNoteByTitle(notes, input)
         IN  /\ choice' = "3"
             /\ titleInput' = input
             /\ bodyInput' = <<>>
             /\ IF input = <<>> THEN reject("ValidationError")
                ELSE IF note = <<>> THEN reject("NotFoundError")
                ELSE /\ outcome' = "ok"
                     /\ shown' = note
                     /\ UNCHANGED <<pc, notes, file, clock>>

\* case '4'
deleteNote ==
    /\ pc = "menu"
    /\ \E raw \in TitleInputs :
         LET input == trim(raw)
             matches == [ i \in 1..Len(notes) |-> deleteMatches(notes[i], input) ]
             index == findIndex(matches)
         IN  /\ choice' = "4"
             /\ titleInput' = input
             /\ bodyInput' = <<>>
             /\ IF input = <<>> THEN reject("ValidationError")
                ELSE IF index = 0 THEN reject("NotFoundError")
                ELSE /\ notes' = splice(notes, index)
                     /\ shown' = <<>>
                     /\ saveNotes(notes')
                     /\ outcome' = saved
                     /\ UNCHANGED clock

\* updateNote assigning the new body before it tests it for emptiness
updateNote_assignFirst ==
    /\ pc = "menu"
    /\ \E raw \in TitleInputs, rawBody \in BodyInputs :
         LET input == trim(raw)
             at == foundAt(notes, input)
             newBody == trim(rawBody)
         IN  /\ choice' = "5"
             /\ titleInput' = input
             /\ IF input = <<>>
                THEN bodyInput' = <<>> /\ reject("ValidationError")
                ELSE IF at = 0
                THEN bodyInput' = <<>> /\ reject("NotFoundError")
                ELSE /\ bodyInput' = newBody
                     /\ notes' = setBody(notes, at, newBody)
                     /\ shown' = <<>>
                     /\ IF newBody = <<>>
                        THEN /\ outcome' = "ValidationError"
                             /\ UNCHANGED <<pc, file, clock>>
                        ELSE /\ saveNotes(notes')
                             /\ outcome' = saved
                             /\ UNCHANGED clock

\* case '5'
updateNote ==
    /\ pc = "menu"
    /\ \E raw \in TitleInputs, rawBody \in BodyInputs :
         LET input == trim(raw)
             at == foundAt(notes, input)
             newBody == trim(rawBody)
         IN  /\ choice' = "5"
             /\ titleInput' = input
             /\ IF input = <<>>
                THEN bodyInput' = <<>> /\ reject("ValidationError")
                ELSE IF at = 0
                THEN bodyInput' = <<>> /\ reject("NotFoundError")
                ELSE IF newBody = <<>>
                THEN bodyInput' = newBody /\ reject("ValidationError")
                ELSE /\ bodyInput' = newBody
                     /\ notes' = setBody(notes, at, newBody)
                     /\ shown' = <<>>
                     /\ saveNotes(notes')
                     /\ outcome' = saved
                     /\ UNCHANGED clock

\* case '6'
exit ==
    /\ pc = "menu"
    /\ pc' = "exited"
    /\ choice' = "6"
    /\ outcome' = "exit"
    /\ titleInput' = <<>>
    /\ bodyInput' = <<>>
    /\ shown' = <<>>
    /\ UNCHANGED <<notes, file, clock>>

\* default: any other answer to the menu prompt
invalidChoice ==
    /\ pc = "menu"
    /\ choice' = "other"
    /\ outcome' = "invalid"
    /\ titleInput' = <<>>
    /\ bodyInput' = <<>>
    /\ shown' = <<>>
    /\ UNCHANGED <<pc, notes, file, clock>>

----------------------------------------------------------------------------

Init ==
    /\ pc = "start"
    /\ notes = <<>>
    /\ file \in InitialFiles
    /\ clock = 0
    /\ choice = ""
    /\ titleInput = <<>>
    /\ bodyInput = <<>>
    /\ outcome = ""
    /\ shown = <<>>

Next ==
    \/ loadNotes
    \/ addNote
    \/ listAllNotes
    \/ readNote
    \/ deleteNote
    \/ updateNote
    \/ exit
    \/ invalidChoice

Spec == Init /\ [][Next]_vars

----------------------------------------------------------------------------
(* Properties *)

lower(n) == toLowerCase(n.title)

Range(f) == { f[i] : i \in DOMAIN f }

\* the indices of the notes whose title equals / contains q, case-insensitively
ExactHits(ns, q) == { i \in 1..Len(ns) : lower(ns[i]) = toLowerCase(q) }
PartialHits(ns, q) == { i \in 1..Len(ns) : includes(lower(ns[i]), toLowerCase(q)) }

\* ns without its i-th element
Without(ns, i) == SubSeq(ns, 1, i - 1) \o SubSeq(ns, i + 1, Len(ns))

Added == choice = "1" /\ outcome = "ok"
Read == choice = "3"
Deleted == choice = "4" /\ outcome = "ok"
Updated == choice = "5" /\ outcome = "ok"
Rejected == outcome \in {"ValidationError", "NotFoundError"}

\* C1: no two notes of the array have titles that are equal when compared
\* case-insensitively.
C1_TitlesUnique ==
    \A i, j \in 1..Len(notes) : i # j => lower(notes[i]) # lower(notes[j])

\* an add was refused as a duplicate while two notes were held
C1_Witness ==
    /\ choice = "1"
    /\ outcome = "ValidationError"
    /\ Len(notes) >= 2
    /\ \E i \in 1..Len(notes) :
         notes[i].title # titleInput /\ lower(notes[i]) = toLowerCase(titleInput)

\* C2 (as claimed): after a successful delete(query), findByTitle(query) returns
\* none.
C2_DeleteThenFindNone ==
    Deleted => findNoteByTitle(notes, titleInput) = <<>>

\* C2 (amended): after a successful delete(query), findByTitle(query) never
\* returns the deleted note, and it returns none exactly when the deleted note
\* was the only one whose title contained the query.
C2_DeleteThenFind ==
    [][ Deleted' =>
          /\ \A n \in Range(notes) \ Range(notes') :
               findNoteByTitle(notes', titleInput') # <<n>>
          /\ findNoteByTitle(notes', titleInput') = <<>>
               <=> Cardinality(PartialHits(notes, titleInput')) = 1
      ]_vars

\* a delete removed the only match and left other notes behind
C2_Witness ==
    /\ Deleted
    /\ Len(notes) >= 1
    /\ findNoteByTitle(notes, titleInput) = <<>>

\* C3 (as claimed): the note a successful delete(query) removes is the note
\* findByTitle(query) returns and update(query, newBody) modifies.
C3_DeleteResolvesAsUpdate ==
    [][ Deleted' => notes' = Without(notes, foundAt(notes, titleInput')) ]_vars

\* C4: a read returns none whenever its query is empty or no title equals or
\* contains the query, whatever notes are held.
C4_ReadNone ==
    (Read /\ (titleInput = <<>> \/ PartialHits(notes, titleInput) = {}))
        => (shown = <<>> /\ Rejected)

\* a read with an empty query while notes are held
C4_Witness ==
    /\ Read
    /\ titleInput = <<>>
    /\ Len(notes) >= 1

\* C5: a successful read returns the note whose title equals the query if
\* there is one, wherever it stands, and else the first note whose title
\* contains the query.
C5_ExactFirst ==
    (Read /\ outcome = "ok") =>
        IF ExactHits(notes, titleInput) # {}
        THEN \E i \in ExactHits(notes, titleInput) : shown = <<notes[i]>>
        ELSE /\ PartialHits(notes, titleInput) # {}
             /\ shown = <<notes[Min(PartialHits(notes, titleInput))]>>

\* a read returned an exact match that stands behind a partial match
C5_Witness ==
    /\ Read
    /\ outcome = "ok"
    /\ \E i, j \in 1..Len(notes) :
         /\ i < j
         /\ i \in PartialHits(notes, titleInput)
         /\ j \in ExactHits(notes, titleInput)
         /\ shown = <<notes[j]>>

\* C6: after a successful add(title, body), findByTitle(title) returns the
\* note just added, which has exactly that title and body.
C6_AddThenFind ==
    Added =>
        /\ Len(notes) >= 1
        /\ findNoteByTitle(notes, titleInput) = <<notes[Len(notes)]>>
        /\ notes[Len(notes)].title = titleInput
        /\ notes[Len(notes)].body = bodyInput
        /\ notes[Len(notes)].time_added = clock

\* a note was added whose title is contained in the title of an older note
C6_Witness ==
    /\ Added
    /\ \E i \in 1..(Len(notes) - 1) : i \in PartialHits(notes, titleInput)

\* C7: a handler that ends in a ValidationError or a NotFoundError leaves the
\* array and the document as they were.
C7_RejectedUnchanged ==
    [][ Rejected' => (notes' = notes /\ file' = file) ]_vars

\* an update was refused for its empty new body after its note was resolved
C7_Witness ==
    /\ choice = "5"
    /\ outcome = "ValidationError"
    /\ titleInput # <<>>
    /\ PartialHits(notes, titleInput) # {}
    /\ Len(notes) >= 2

\* C8: a successful update changes the body of the resolved note and nothing
\* else: every title and time_added, every other note, the length and the order
\* stay.
C8_UpdateBodyOnly ==
    [][ Updated' =>
          LET at == IF ExactHits(notes, titleInput') # {}
                    THEN Min(ExactHits(notes, titleInput'))
                    ELSE Min(PartialHits(notes, titleInput'))
          IN  /\ Len(notes') = Len(notes)
              /\ \A i \in 1..Len(notes) :
                   /\ notes'[i].title = notes[i].title
                   /\ notes'[i].time_added = notes[i].time_added
                   /\ i # at => notes'[i] = notes[i]
              /\ notes'[at].body = bodyInput'
      ]_vars

\* an update changed the body of one of several notes, long after it was added
C8_Witness ==
    /\ Updated
    /\ Len(notes) >= 2
    /\ \E i \in 1..Len(notes) :
         notes[i].body = bodyInput /\ notes[i].time_added < clock

\* C9: at the menu prompt the document holds the notes of the array, in order.
C9_DocumentMirrors ==
    pc = "menu" => (file.state = "json" /\ JSONparse(file.data) = notes)

\* back at the prompt after a mutation, with notes held
C9_Witness ==
    /\ pc = "menu"
    /\ (Deleted \/ Updated)
    /\ Len(notes) >= 1

\* C10: the array is in creation order: an add appends, a delete removes one
\* note and keeps the others in place, an update moves nothing, and a listing
\* shows the array as it stands.
C10_CreationOrder ==
    [][ /\ \/ notes' = notes
           \/ choice' = "load"
           \/ /\ choice' = "1"
              /\ Len(notes') = Len(notes) + 1
              /\ SubSeq(notes', 1, Len(notes)) = notes
           \/ /\ choice' = "4"
              /\ \E i \in 1..Len(notes) : notes' = Without(notes, i)
           \/ /\ choice' = "5"
              /\ Len(notes') = Len(notes)
              /\ \A i \in 1..Len(notes) :
                   /\ notes'[i].title = notes[i].title
                   /\ notes'[i].time_added = notes[i].time_added
        /\ \A i, j \in 1..Len(notes') :
             i < j => notes'[i].time_added <= notes'[j].time_added
        /\ choice' = "2" => shown' = notes'
      ]_vars

\* the middle one of three notes was deleted
C10_Witness ==
    /\ Deleted
    /\ Len(notes) = 2
    /\ notes[1].time_added + 1 < notes[2].time_added

====
